---- MODULE Spec2Model ----
(***************************************************************************)
(* A model of two components of the DevTools front end:                    *)
(*   - the setting registry of front_end/common/SettingRegistration.ts     *)
(*     (specification RegistrySpec), and                                   *)
(*   - the details tab controller of                                       *)
(*     front_end/timeline/TimelineDetailsView.js (specification Spec).     *)
(* The two components share no state; each specification leaves the other  *)
(* component's variables at their initial values.                          *)
(***************************************************************************)
EXTENDS Integers, Sequences, FiniteSets, TLC

VARIABLES
    \* ---- SettingRegistration.ts ----
    registeredSettings,   \* the ordered list of registered descriptors
    settingNameSet,       \* the name index
    enabledExperiments,   \* Root.Runtime: the experiments currently enabled
    queryParams,          \* Root.Runtime: the conditions currently present
    regCall,              \* the latest step: [op, settings, forceReset]
    regThrown,            \* the message of the Error that step threw, "" if none
    returned,             \* what that step returned, if it was getRegisteredSettings
    \* ---- TimelineDetailsView.js ----
    model,                \* this._model: "undefined", "null" or a PerformanceModel
    track,                \* this._track: "undefined", "null" or a Track
    selection,            \* this._selection
    preferredTabId,       \* this._preferredTabId
    content,              \* the child of this._defaultDetailsContentElement
    lazyLayersView,       \* this._lazyLayersView
    lazyPaintProfilerView, \* this._lazyPaintProfilerView
    footer,               \* the items of this._additionalMetricsToolbar
    tabs,                 \* this._tabbedPane: its tabs, in display order
    tabsHistory,          \* this._tabbedPane: tab ids, most recently selected first
    selectedTabId,        \* this._tabbedPane.selectedTabId
    listening,            \* _tabSelected is subscribed to the pane's TabSelected
    listeners,            \* per model: the WindowChanged subscriptions of this view
    window,               \* per model: model.window()
    hasPaintProfilerModel, \* TargetManager has a PaintProfilerModel
    pending,              \* the detail builds in flight, oldest first
    viewsConstructed,     \* how many lazy views have been constructed so far
    snapshotCallback,     \* some TimelineLayersView holds _showSnapshotInPaintProfiler
    updated,              \* the updateContents call the latest step made on a tree view
    thrown,               \* the TypeError the latest step threw, "" if none
    lastOp,               \* the latest step of the controller
    steps                 \* how many steps the controller and its environment took

regVars == <<registeredSettings, settingNameSet, enabledExperiments, queryParams,
             regCall, regThrown, returned>>

viewVars == <<model, track, selection, preferredTabId, content, lazyLayersView,
              lazyPaintProfilerView, footer, tabs, tabsHistory, selectedTabId, listening,
              listeners, window, hasPaintProfilerModel, pending, viewsConstructed,
              snapshotCallback, updated, thrown, lastOp, steps>>

vars == <<regVars, viewVars>>

-----------------------------------------------------------------------------
(* Bounds of the model.                                                    *)

\* The longest list handed to registerSettingExtengionsForTest, and the
\* longest list registerSettingExtension grows the registry to.
MaxSettings == 3

\* The most detail builds in flight at once.
MaxPending == 2

\* The most steps the controller and its environment take.
MaxSteps == 5

\* The most lazy views (layer viewers and paint profilers) ever constructed.
MaxViews == 2

-----------------------------------------------------------------------------
(* SettingRegistration.ts                                                  *)

SettingNames == {"a", "b"}

\* A SettingRegistration, reduced to the fields the registry reads: its
\* identifier and its two gates ("" stands for an absent optional field).
SettingRegistration ==
    { [settingName |-> "a", experiment |-> "e1", condition |-> ""],
      [settingName |-> "b", experiment |-> "",   condition |-> "c1"] }

ExperimentNames == {"e1"}
ConditionNames == {"c1"}

RECURSIVE SeqsUpTo(_, _)
SeqsUpTo(S, n) ==
    IF n = 0 THEN {<<>>}
    ELSE LET shorter == SeqsUpTo(S, n - 1)
         IN  shorter \cup {Append(s, x) : s \in {t \in shorter : Len(t) = n - 1}, x \in S}

SettingLists == SeqsUpTo(SettingRegistration, MaxSettings)

NoCall == [op |-> "none", settings |-> <<>>, forceReset |-> FALSE]
EnvironmentStep == [op |-> "environment", settings |-> <<>>, forceReset |-> FALSE]

\* new Error(`Duplicate setting name '${settingName}'`)
DuplicateSettingName(settingName) == "Duplicate setting name '" \o settingName \o "'"

\* Root.Runtime.Runtime.isDescriptorEnabled({experiment, condition}): the
\* gating predicate, evaluated against the experiments and conditions of
\* the moment.
isDescriptorEnabled(setting) ==
    /\ setting.experiment = "" \/ setting.experiment \in enabledExperiments
    /\ setting.condition = "" \/ setting.condition \in queryParams

\* filter with the test dropped: every element is kept.
filter_KeepAll(settings, i) == SubSeq(settings, i, Len(settings))

\* Array.prototype.filter: the elements passing the test, in order.
RECURSIVE filter(_, _)
filter(settings, i) ==
    IF i > Len(settings) THEN <<>>
    ELSE IF isDescriptorEnabled(settings[i])
         THEN <<settings[i]>> \o filter(settings, i + 1)
         ELSE filter(settings, i + 1)

\* The loop with the duplicate check dropped: a repeated name is added again.
forTestLoop_NoCheck(settings, i, names) ==
    [names |-> names \cup {settings[k].settingName : k \in i..Len(settings)}, thrown |-> ""]

\* The loop of registerSettingExtengionsForTest from element i on, the name
\* set being names: the name set it ends with and the error it throws.
RECURSIVE forTestLoop(_, _, _)
forTestLoop(settings, i, names) ==
    IF i > Len(settings) THEN [names |-> names, thrown |-> ""]
    ELSE IF settings[i].settingName \in names
         THEN [names |-> names, thrown |-> DuplicateSettingName(settings[i].settingName)]
         ELSE forTestLoop(settings, i + 1, names \cup {settings[i].settingName})

\* registerSettingExtension pushing the descriptor before it checks the name.
registerSettingExtension_PushFirst(registration) ==
    /\ regCall' = [op |-> "registerSettingExtension", settings |-> <<registration>>,
                   forceReset |-> FALSE]
    /\ returned' = <<>>
    /\ UNCHANGED <<enabledExperiments, queryParams, viewVars>>
    /\ Len(registeredSettings) < MaxSettings
    /\ registeredSettings' = Append(registeredSettings, registration)
    /\ IF registration.settingName \in settingNameSet
       THEN /\ regThrown' = DuplicateSettingName(registration.settingName)
            /\ UNCHANGED settingNameSet
       ELSE /\ settingNameSet' = settingNameSet \cup {registration.settingName}
            /\ regThrown' = ""

registerSettingExtension(registration) ==
    /\ regCall' = [op |-> "registerSettingExtension", settings |-> <<registration>>,
                   forceReset |-> FALSE]
    /\ returned' = <<>>
    /\ UNCHANGED <<enabledExperiments, queryParams, viewVars>>
    /\ IF registration.settingName \in settingNameSet
       THEN /\ regThrown' = DuplicateSettingName(registration.settingName)
            /\ UNCHANGED <<registeredSettings, settingNameSet>>
       ELSE /\ Len(registeredSettings) < MaxSettings
            /\ settingNameSet' = settingNameSet \cup {registration.settingName}
            /\ registeredSettings' = Append(registeredSettings, registration)
            /\ regThrown' = ""

getRegisteredSettings ==
    /\ regCall' = [op |-> "getRegisteredSettings", settings |-> <<>>, forceReset |-> FALSE]
    /\ returned' = filter(registeredSettings, 1)
    /\ regThrown' = ""
    /\ UNCHANGED <<registeredSettings, settingNameSet, enabledExperiments, queryParams,
                   viewVars>>

registerSettingExtengionsForTest(settings, forceReset) ==
    /\ regCall' = [op |-> "registerSettingExtengionsForTest", settings |-> settings,
                   forceReset |-> forceReset]
    /\ returned' = <<>>
    /\ UNCHANGED <<enabledExperiments, queryParams, viewVars>>
    /\ IF Len(registeredSettings) = 0 \/ forceReset
       THEN LET loop == forTestLoop(settings, 1, {})
            IN  /\ registeredSettings' = settings
                /\ settingNameSet' = loop.names
                /\ regThrown' = loop.thrown
       ELSE /\ regThrown' = ""
            /\ UNCHANGED <<registeredSettings, settingNameSet>>

\* The environment enables or disables an experiment.
setExperimentEnabled(experiment, enabled) ==
    /\ enabledExperiments' = IF enabled THEN enabledExperiments \cup {experiment}
                             ELSE enabledExperiments \ {experiment}
    /\ enabledExperiments' # enabledExperiments
    /\ regCall' = EnvironmentStep
    /\ regThrown' = ""
    /\ returned' = <<>>
    /\ UNCHANGED <<registeredSettings, settingNameSet, queryParams, viewVars>>

\* The environment adds or removes a query parameter.
setQueryParam(condition, present) ==
    /\ queryParams' = IF present THEN queryParams \cup {condition}
                      ELSE queryParams \ {condition}
    /\ queryParams' # queryParams
    /\ regCall' = EnvironmentStep
    /\ regThrown' = ""
    /\ returned' = <<>>
    /\ UNCHANGED <<registeredSettings, settingNameSet, enabledExperiments, viewVars>>

-----------------------------------------------------------------------------
(* TimelineDetailsView.js: the values the controller works on.             *)

\* export const Tab
Tab == [Details |-> "Details", EventLog |-> "EventLog", CallTree |-> "CallTree",
        BottomUp |-> "BottomUp", PaintProfiler |-> "PaintProfiler",
        LayerViewer |-> "LayerViewer"]

TabIds == {Tab.Details, Tab.EventLog, Tab.CallTree, Tab.BottomUp, Tab.PaintProfiler,
           Tab.LayerViewer}

\* The keys of this._rangeDetailViews, set by the constructor and never changed.
rangeDetailViews == {Tab.BottomUp, Tab.CallTree, Tab.EventLog}

\* The tabs the host passes to setPreferredTab, and the tabs whose header
\* the user clicks (the three tree views' tabs behave alike).
HostPreferredTabs == {Tab.Details, Tab.EventLog}
UserTabs == {Tab.Details, Tab.BottomUp, Tab.PaintProfiler, Tab.LayerViewer}

\* The PerformanceModels and Tracks the host binds the view to.
Models == {"m1", "m2"}
Tracks == {"t1"}

\* this._model and this._track are falsy when undefined or null.
Falsy(x) == x \in {"undefined", "null"}

\* model.window() takes one of these values.
Windows == {[left |-> 0, right |-> 10], [left |-> 2, right |-> 5]}

\* model.timelineModel().totalBlockingTime(), the time in thousandths of a
\* millisecond.
totalBlockingTime(m) ==
    IF m = "m1" THEN [estimated |-> FALSE, time |-> 120000]
    ELSE [estimated |-> TRUE, time |-> 2675]

\* Trace events and their names (TimelineModel.RecordType).
TraceEvents == {"paintEvent", "rasterEvent", "functionEvent"}
EventName(event) ==
    CASE event = "paintEvent" -> "Paint"
      [] event = "rasterEvent" -> "RasterTask"
      [] OTHER -> "FunctionCall"

\* TimelinePaintProfilerView.setEvent's answer: the event has profile data.
hasProfileData(event) == event = "paintEvent"

\* Frames and their layer trees ("null" for a frame without one).
Frames == {"frame1", "frame2"}
layerTree(frame) == IF frame = "frame1" THEN "layerTree1" ELSE "null"

NetworkRequests == {"request1"}
Snapshots == {"snapshot1"}

\* TimelineSelection: a type, a start and end time and an object.
TimelineSelection(type, startTime, endTime, object) ==
    [type |-> type, startTime |-> startTime, endTime |-> endTime, object |-> object]

\* this._selection when it is undefined (after construction) or null.
UndefinedSelection == TimelineSelection("undefined", 0, 0, "")
NullSelection == TimelineSelection("null", 0, 0, "")

\* TimelineSelection.fromRange
fromRange(startTime, endTime) == TimelineSelection("Range", startTime, endTime, "")

\* The selections the host passes to setSelection, null aside.
Selections ==
    {TimelineSelection("TraceEvent", 1, 2, e) : e \in TraceEvents}
    \cup {TimelineSelection("Frame", 1, 2, f) : f \in Frames}
    \cup {TimelineSelection("NetworkRequest", 1, 2, r) : r \in NetworkRequests}
    \cup {fromRange(3, 4)}

NoSelection(sel) == sel.type \in {"undefined", "null"}

\* What the summary tab shows: the kind of content, the object it details,
\* the model and track it was computed from and, for range statistics, the
\* interval.
Content(kind, object, m, t, startTime, endTime) ==
    [kind |-> kind, object |-> object, model |-> m, track |-> t,
     startTime |-> startTime, endTime |-> endTime]

\* this._defaultDetailsContentElement has no child yet.
NoContent == Content("none", "", "", "", 0, 0)

\* UI.Fragment.html`<div/>`
EmptyDiv == Content("div", "", "", "", 0, 0)

\* A lazily constructed view: its class, its serial number among the lazy
\* views constructed, the model it was constructed for and what it was last
\* told to show. NoView stands for undefined and null.
NoView == [class |-> "none", serial |-> 0, model |-> "", showing |-> ""]

\* No tree view had updateContents called.
NoUpdate == [view |-> "none", selection |-> NullSelection]

\* The decimal digits of a natural number.
DigitString(d) == <<"0", "1", "2", "3", "4", "5", "6", "7", "8", "9">>[d + 1]

RECURSIVE NatString(_)
NatString(n) == IF n < 10 THEN DigitString(n) ELSE NatString(n \div 10) \o DigitString(n % 10)

\* The number of bits of a natural number (0 for 0).
RECURSIVE BitLength(_)
BitLength(n) == IF n = 0 THEN 0 ELSE 1 + BitLength(n \div 2)

\* The Number the code holds for thousandths / 1000 is the double nearest to
\* it: a significand of 53 bits, rounded to nearest, ties to even. The bits
\* are produced by long division, r being the remainder in thousandths, have
\* the count of significand bits produced so far and last the latest of them.
\* The result is -1 when the double is below thousandths / 1000, 0 when it is
\* equal and 1 when it is above.
RECURSIVE doubleError(_, _, _)
doubleError(r, have, last) ==
    IF r = 0 THEN 0
    ELSE IF have = 53
         THEN IF r > 500 \/ (r = 500 /\ last = 1) THEN 1 ELSE -1
         ELSE LET bit == IF 2 * r >= 1000 THEN 1 ELSE 0
              IN  doubleError(2 * r - 1000 * bit,
                              IF have > 0 \/ bit = 1 THEN have + 1 ELSE 0, bit)

\* toFixed(2) takes the integer n with n / 100 nearest to the double, the
\* larger one of two equally near: a decimal tie of the thousandths goes down
\* exactly when the double is below it.
toFixed2(thousandths) ==
    LET down == thousandths \div 10
        hundredths ==
            IF thousandths % 10 = 5
            THEN IF doubleError(thousandths % 1000, BitLength(thousandths \div 1000),
                                (thousandths \div 1000) % 2) < 0
                 THEN down ELSE down + 1
            ELSE (thousandths + 5) \div 10
    IN  NatString(hundredths \div 100) \o "." \o DigitString((hundredths % 100) \div 10)
            \o DigitString(hundredths % 10)

\* i18nString(UIStrings.totalBlockingTimeSmss, {PH1: time.toFixed(2), PH2: isEstimate})
totalBlockingTimeMessage(tbt) ==
    "Total blocking time: " \o toFixed2(tbt.time) \o "ms"
        \o (IF tbt.estimated THEN " (estimated)" ELSE "")

\* The sequence without its element at index i.
RemoveAt(seq, i) == SubSeq(seq, 1, i - 1) \o SubSeq(seq, i + 1, Len(seq))

\* The last index of the sequence holding x, 0 if none.
LastIndex(seq, x) ==
    LET hits == {i \in 1..Len(seq) : seq[i] = x}
    IN  IF hits = {} THEN 0 ELSE CHOOSE i \in hits : \A j \in hits : j <= i

\* The controller and its tabbed pane as one record, on which the methods
\* below work.
This ==
    [model |-> model, track |-> track, selection |-> selection,
     preferredTabId |-> preferredTabId, content |-> content,
     lazyLayersView |-> lazyLayersView, lazyPaintProfilerView |-> lazyPaintProfilerView,
     footer |-> footer, tabs |-> tabs, tabsHistory |-> tabsHistory,
     selectedTabId |-> selectedTabId, listening |-> listening, listeners |-> listeners,
     window |-> window, hasPaintProfilerModel |-> hasPaintProfilerModel,
     pending |-> pending, viewsConstructed |-> viewsConstructed,
     snapshotCallback |-> snapshotCallback, updated |-> NoUpdate, thrown |-> ""]

\* TypeError: Cannot read properties of null/undefined (reading '<property>')
TypeError(this, property) ==
    [this EXCEPT !.thrown = "TypeError: Cannot read properties of " \o this.model
                                \o " (reading '" \o property \o "')"]

-----------------------------------------------------------------------------
(* UI.TabbedPane, as far as the controller uses it.                        *)

\* TabbedPane.hasTab
hasTab(this, id) == \E i \in 1..Len(this.tabs) : this.tabs[i].id = id

\* The ids of the pane's tabs, in display order.
tabIds(this) == [i \in 1..Len(this.tabs) |-> this.tabs[i].id]

\* TabbedPane.otherTabs
otherTabs(this, id) == SelectSeq(tabIds(this), LAMBDA x : x # id)

\* this._preferredTabId = tabId
setPreferredTab(this, tabId) == [this EXCEPT !.preferredTabId = tabId]

\* _updateContents passing the selection even when there is none.
_updateContents_NoFallback(this) ==
    IF this.selectedTabId \in rangeDetailViews
    THEN IF Falsy(this.model)
         THEN TypeError(this, "window")
         ELSE [this EXCEPT !.updated = [view |-> this.selectedTabId,
                                        selection |-> this.selection]]
    ELSE this

\* _updateContents: the tree view of the selected tab, if the selected tab
\* has one, is given the selection or, without one, the model's window.
_updateContents(this) ==
    IF this.selectedTabId \in rangeDetailViews
    THEN IF Falsy(this.model)
         THEN TypeError(this, "window")
         ELSE LET w == this.window[this.model]
              IN  [this EXCEPT !.updated =
                       [view |-> this.selectedTabId,
                        selection |-> IF NoSelection(this.selection)
                                      THEN fromRange(w.left, w.right)
                                      ELSE this.selection]]
    ELSE this

\* _tabSelected treating every selection as a user gesture.
_tabSelected_IgnoresGesture(this, tabId, isUserGesture) ==
    _updateContents(setPreferredTab(this, tabId))

\* _tabSelected: the handler of the pane's TabSelected event.
_tabSelected(this, tabId, isUserGesture) ==
    IF ~isUserGesture THEN this
    ELSE _updateContents(setPreferredTab(this, tabId))

\* TabbedPane.selectTab: makes the tab current, moves it to the front of the
\* history and dispatches TabSelected, unless the tab is missing or current.
selectTab(this, id, userGesture) ==
    IF ~hasTab(this, id) \/ this.selectedTabId = id THEN this
    ELSE LET at == LastIndex(this.tabsHistory, id)
             selected == [this EXCEPT !.selectedTabId = id,
                                      !.tabsHistory = <<id>> \o RemoveAt(this.tabsHistory, at)]
         IN  IF this.listening THEN _tabSelected(selected, id, userGesture) ELSE selected

\* TabbedPane._innerCloseTab
_innerCloseTab(this, id, userGesture) ==
    LET at == LastIndex(tabIds(this), id)
    IN  IF at = 0 \/ (userGesture /\ ~this.tabs[at].closeable) THEN this
        ELSE [this EXCEPT
                 !.selectedTabId = IF this.selectedTabId = id THEN "null" ELSE @,
                 !.tabs = RemoveAt(this.tabs, at),
                 !.tabsHistory = RemoveAt(@, LastIndex(this.tabsHistory, id))]

\* TabbedPane.closeTabs: closes the tabs, then selects the most recently
\* selected tab that is left.
RECURSIVE closeEach(_, _, _, _)
closeEach(this, ids, i, userGesture) ==
    IF i > Len(ids) THEN this
    ELSE closeEach(_innerCloseTab(this, ids[i], userGesture), ids, i + 1, userGesture)

closeTabs(this, ids, userGesture) ==
    LET closed == closeEach(this, ids, 1, userGesture)
    IN  IF Len(closed.tabsHistory) > 0
        THEN selectTab(closed, closed.tabsHistory[1], FALSE)
        ELSE closed

\* TabbedPane.closeTab
closeTab(this, id, userGesture) == closeTabs(this, <<id>>, userGesture)

\* TabbedPane.appendTab: the tab goes to the end of the tabs and of the
\* history; the first tab of a showing pane is selected at once.
appendTab(this, id, view, isCloseable, isShowing) ==
    LET appended == [this EXCEPT
                        !.tabs = Append(@, [id |-> id, view |-> view,
                                            closeable |-> isCloseable]),
                        !.tabsHistory = Append(@, id)]
    IN  IF Len(this.tabsHistory) = 0 /\ isShowing
        THEN selectTab(appended, id, FALSE)
        ELSE appended

-----------------------------------------------------------------------------
(* TimelineDetailsView                                                     *)

\* model.timelineModel(): a PerformanceModel always has one.
timelineModel(m) == m \o ".timelineModel"

\* The loop of _setContent without its test: every other tab is closed.
closeOthers_All(this, allTabs, i) == closeEach(this, allTabs, 1, FALSE)

\* _setContent: closes every tab but Details and the tree views' tabs, then
\* replaces the child of the summary tab's content element.
RECURSIVE closeOthers(_, _, _)
closeOthers(this, allTabs, i) ==
    IF i > Len(allTabs) THEN this
    ELSE IF allTabs[i] \notin rangeDetailViews
         THEN closeOthers(closeTab(this, allTabs[i], FALSE), allTabs, i + 1)
         ELSE closeOthers(this, allTabs, i + 1)

_setContent(this, node) ==
    [closeOthers(this, otherTabs(this, Tab.Details), 1) EXCEPT !.content = node]

\* _appendTab selecting the appended tab whatever the preferred tab is.
_appendTab_AlwaysSelects(this, id, view, isCloseable, isShowing) ==
    selectTab(appendTab(this, id, view, isCloseable, isShowing), id, FALSE)

\* _appendTab: appends the tab and selects it if the selected tab is not
\* the preferred one.
_appendTab(this, id, view, isCloseable, isShowing) ==
    LET appended == appendTab(this, id, view, isCloseable, isShowing)
    IN  IF appended.preferredTabId # appended.selectedTabId
        THEN selectTab(appended, id, FALSE)
        ELSE appended

\* _updateSelectedRangeStats: the statistics of the track's events between
\* the two times become the summary, unless no model or no track is bound.
_updateSelectedRangeStats(this, startTime, endTime) ==
    IF Falsy(this.model) \/ Falsy(this.track) THEN this
    ELSE _setContent(this, Content("range", "", this.model, this.track, startTime, endTime))

\* _updateContentsFromWindow without the statistics of the window.
_updateContentsFromWindow_NoStats(this) ==
    IF Falsy(this.model) THEN _setContent(this, EmptyDiv) ELSE _updateContents(this)

\* _updateContentsFromWindow
_updateContentsFromWindow(this) ==
    IF Falsy(this.model) THEN _setContent(this, EmptyDiv)
    ELSE LET w == this.window[this.model]
         IN  _updateContents(_updateSelectedRangeStats(this, w.left, w.right))

\* _onWindowChanged without the test of the selection.
_onWindowChanged_Always(this) == _updateContentsFromWindow(this)

\* _onWindowChanged
_onWindowChanged(this) ==
    IF NoSelection(this.selection) THEN _updateContentsFromWindow(this) ELSE this

\* _layersView constructing a layer viewer on every use.
_layersView_NoCache(this) ==
    IF Falsy(this.model) THEN TypeError(this, "timelineModel")
    ELSE [this EXCEPT !.viewsConstructed = @ + 1,
                      !.snapshotCallback = TRUE,
                      !.lazyLayersView =
                          [class |-> "TimelineLayersView", serial |-> this.viewsConstructed + 1,
                           model |-> timelineModel(this.model), showing |-> ""]]

\* _layersView: the cached layer viewer, constructed on first use.
_layersView(this) ==
    IF this.lazyLayersView # NoView THEN this
    ELSE IF Falsy(this.model) THEN TypeError(this, "timelineModel")
    ELSE [this EXCEPT !.viewsConstructed = @ + 1,
                      !.snapshotCallback = TRUE,
                      !.lazyLayersView =
                          [class |-> "TimelineLayersView", serial |-> this.viewsConstructed + 1,
                           model |-> timelineModel(this.model), showing |-> ""]]

\* _paintProfilerView: the cached paint profiler, constructed on first use.
_paintProfilerView(this) ==
    IF this.lazyPaintProfilerView # NoView THEN this
    ELSE IF Falsy(this.model) THEN TypeError(this, "frameModel")
    ELSE [this EXCEPT !.viewsConstructed = @ + 1,
                      !.lazyPaintProfilerView =
                          [class |-> "TimelinePaintProfilerView",
                           serial |-> this.viewsConstructed + 1,
                           model |-> this.model \o ".frameModel", showing |-> ""]]

\* _showSnapshotInPaintProfiler
_showSnapshotInPaintProfiler(this, snapshot) ==
    LET got == _paintProfilerView(this)
        set == [got EXCEPT !.lazyPaintProfilerView.showing = snapshot]
        open == IF ~hasTab(set, Tab.PaintProfiler)
                THEN _appendTab(set, Tab.PaintProfiler, set.lazyPaintProfilerView.serial,
                                TRUE, TRUE)
                ELSE set
    IN  IF got.thrown # "" THEN got
        ELSE selectTab(open, Tab.PaintProfiler, TRUE)

\* _showEventInPaintProfiler without the test for a PaintProfilerModel.
_showEventInPaintProfiler_NoModelTest(this, event) ==
    LET got == _paintProfilerView(this)
        set == [got EXCEPT !.lazyPaintProfilerView.showing = event]
    IN  IF got.thrown # "" THEN got
        ELSE IF ~hasProfileData(event) THEN set
        ELSE IF hasTab(set, Tab.PaintProfiler) THEN set
        ELSE _appendTab(set, Tab.PaintProfiler, set.lazyPaintProfilerView.serial,
                        FALSE, TRUE)

\* _showEventInPaintProfiler
_showEventInPaintProfiler(this, event) ==
    IF ~this.hasPaintProfilerModel THEN this
    ELSE LET got == _paintProfilerView(this)
             set == [got EXCEPT !.lazyPaintProfilerView.showing = event]
         IN  IF got.thrown # "" THEN got
             ELSE IF ~hasProfileData(event) THEN set
             ELSE IF hasTab(set, Tab.PaintProfiler) THEN set
             ELSE _appendTab(set, Tab.PaintProfiler, set.lazyPaintProfilerView.serial,
                             FALSE, TRUE)

\* _appendDetailsTabsForTraceEventAndShowDetails
_appendDetailsTabsForTraceEventAndShowDetails(this, event, fragment) ==
    LET shown == _setContent(this, fragment)
    IN  IF EventName(event) = "Paint" \/ EventName(event) = "RasterTask"
        THEN _showEventInPaintProfiler(shown, event)
        ELSE shown

\* A detail build in flight: the promise of buildTraceEventDetails or
\* buildNetworkRequestDetails, with the object and timeline model it was
\* given.
Build(type, object, m) == [type |-> type, object |-> object, model |-> m]

\* The fragment the build resolves to.
Fragment(build) ==
    Content(IF build.type = "TraceEvent" THEN "event" ELSE "request", build.object,
            build.model, "", 0, 0)

\* setSelection, the Frame case.
selectFrame(this, frame) ==
    IF Falsy(this.model) THEN TypeError(this, "filmStripModelFrame")
    ELSE LET shown == _setContent(this, Content("frame", frame, this.model, "", 0, 0))
         IN  IF layerTree(frame) = "null" THEN shown
             ELSE LET got == _layersView(shown)
                      set == [got EXCEPT !.lazyLayersView.showing = layerTree(frame)]
                  IN  IF ~hasTab(set, Tab.LayerViewer)
                      THEN _appendTab(set, Tab.LayerViewer, set.lazyLayersView.serial,
                                      FALSE, TRUE)
                      ELSE set

\* setSelection, the switch on the selection's type.
dispatchSelection(this) ==
    CASE this.selection.type \in {"TraceEvent", "NetworkRequest"} ->
           IF Falsy(this.model) THEN TypeError(this, "timelineModel")
           ELSE [this EXCEPT !.pending =
                     Append(@, Build(this.selection.type, this.selection.object,
                                     timelineModel(this.model)))]
      [] this.selection.type = "Frame" -> selectFrame(this, this.selection.object)
      [] this.selection.type = "Range" ->
           _updateSelectedRangeStats(this, this.selection.startTime, this.selection.endTime)
      [] OTHER -> this

\* setSelection cancelling the detail builds in flight.
setSelection_Cancels(this, sel) ==
    LET set == [this EXCEPT !.selection = sel, !.pending = <<>>]
    IN  IF NoSelection(sel) THEN _updateContentsFromWindow(set)
        ELSE LET dispatched == dispatchSelection(set)
             IN  IF dispatched.thrown # "" THEN dispatched
                 ELSE _updateContents(dispatched)

\* setSelection
setSelection(this, sel) ==
    LET set == [this EXCEPT !.selection = sel]
    IN  IF NoSelection(sel) THEN _updateContentsFromWindow(set)
        ELSE LET dispatched == dispatchSelection(set)
             IN  IF dispatched.thrown # "" THEN dispatched
                 ELSE _updateContents(dispatched)

\* The rebinding without the unsubscription from the old model.
rebind_NoUnsubscribe(this, m) ==
    IF this.model = m THEN this
    ELSE [this EXCEPT !.model = m,
                      !.listeners = IF Falsy(m) THEN @ ELSE [@ EXCEPT ![m] = @ + 1]]

\* setModel, lines 119 to 127: the WindowChanged subscription moves from the
\* old model to the new one when the model changes.
rebind(this, m) ==
    IF this.model = m THEN this
    ELSE LET removed == IF Falsy(this.model) THEN this.listeners
                        ELSE [this.listeners EXCEPT ![this.model] = 0]
             added == IF Falsy(m) THEN removed ELSE [removed EXCEPT ![m] = @ + 1]
         IN  [this EXCEPT !.model = m, !.listeners = added]

\* setModel, lines 137 to 154: the footer's total blocking time.
footerFor(m) ==
    IF ~Falsy(m) /\ timelineModel(m) # "null"
    THEN <<totalBlockingTimeMessage(totalBlockingTime(m)), "Learn more">>
    ELSE <<>>

\* setModel discarding the paint profiler but keeping the layer viewer.
setModel_KeepsLayersView(this, m, t) ==
    LET bound == [rebind(this, m) EXCEPT !.track = t]
        closed == closeTabs(bound, <<Tab.PaintProfiler, Tab.LayerViewer>>, FALSE)
        reset == [closed EXCEPT !.lazyPaintProfilerView = NoView]
        selected == setSelection(reset, NullSelection)
    IN  IF selected.thrown # "" THEN selected
        ELSE [selected EXCEPT !.footer = footerFor(m)]

\* setModel appending to the footer without emptying it first.
setModel_FooterAccumulates(this, m, t) ==
    LET bound == [rebind(this, m) EXCEPT !.track = t]
        closed == closeTabs(bound, <<Tab.PaintProfiler, Tab.LayerViewer>>, FALSE)
        reset == [closed EXCEPT !.lazyPaintProfilerView = NoView, !.lazyLayersView = NoView]
        selected == setSelection(reset, NullSelection)
    IN  IF selected.thrown # "" THEN selected
        ELSE [selected EXCEPT !.footer = @ \o footerFor(m)]

\* setModel keeping the lazily constructed views.
setModel_KeepsViews(this, m, t) ==
    LET bound == [rebind(this, m) EXCEPT !.track = t]
        closed == closeTabs(bound, <<Tab.PaintProfiler, Tab.LayerViewer>>, FALSE)
        selected == setSelection(closed, NullSelection)
    IN  IF selected.thrown # "" THEN selected
        ELSE [selected EXCEPT !.footer = footerFor(m)]

\* setModel
setModel(this, m, t) ==
    LET bound == [rebind(this, m) EXCEPT !.track = t]
        closed == closeTabs(bound, <<Tab.PaintProfiler, Tab.LayerViewer>>, FALSE)
        reset == [closed EXCEPT !.lazyPaintProfilerView = NoView, !.lazyLayersView = NoView]
        selected == setSelection(reset, NullSelection)
    IN  IF selected.thrown # "" THEN selected
        ELSE [selected EXCEPT !.footer = footerFor(m)]

\* The constructor: the four permanent tabs, Details preferred, then the
\* subscription to the pane's TabSelected. isShowing is the pane's
\* isShowing() while the constructor runs. No target with a
\* PaintProfilerModel is attached yet.
constructor(isShowing) ==
    LET fresh == [model |-> "undefined", track |-> "undefined",
                  selection |-> UndefinedSelection, preferredTabId |-> "undefined",
                  content |-> NoContent, lazyLayersView |-> NoView,
                  lazyPaintProfilerView |-> NoView, footer |-> <<>>, tabs |-> <<>>,
                  tabsHistory |-> <<>>, selectedTabId |-> "null", listening |-> FALSE,
                  listeners |-> [m \in Models |-> 0],
                  window |-> [m \in Models |-> [left |-> 0, right |-> 10]],
                  hasPaintProfilerModel |-> FALSE, pending |-> <<>>, viewsConstructed |-> 0,
                  snapshotCallback |-> FALSE, updated |-> NoUpdate, thrown |-> ""]
        details == setPreferredTab(_appendTab(fresh, Tab.Details, 0, FALSE, isShowing),
                                   Tab.Details)
        bottomUp == _appendTab(details, Tab.BottomUp, 0, FALSE, isShowing)
        callTree == _appendTab(bottomUp, Tab.CallTree, 0, FALSE, isShowing)
        eventLog == _appendTab(callTree, Tab.EventLog, 0, FALSE, isShowing)
    IN  [eventLog EXCEPT !.listening = TRUE]

-----------------------------------------------------------------------------
(* The steps of the controller and of its environment.                     *)

\* The latest step: the operation and its arguments.
Call(op, m, t, sel, tabId, build) ==
    [op |-> op, model |-> m, track |-> t, selection |-> sel, tabId |-> tabId,
     build |-> build]

NoBuild == Build("none", "", "")

\* The variables take the fields of the record a method returned.
Becomes(this) ==
    /\ model' = this.model
    /\ track' = this.track
    /\ selection' = this.selection
    /\ preferredTabId' = this.preferredTabId
    /\ content' = this.content
    /\ lazyLayersView' = this.lazyLayersView
    /\ lazyPaintProfilerView' = this.lazyPaintProfilerView
    /\ footer' = this.footer
    /\ tabs' = this.tabs
    /\ tabsHistory' = this.tabsHistory
    /\ selectedTabId' = this.selectedTabId
    /\ listening' = this.listening
    /\ listeners' = this.listeners
    /\ window' = this.window
    /\ hasPaintProfilerModel' = this.hasPaintProfilerModel
    /\ pending' = this.pending
    /\ viewsConstructed' = this.viewsConstructed
    /\ snapshotCallback' = this.snapshotCallback
    /\ updated' = this.updated
    /\ thrown' = this.thrown

\* A step within the bounds of the model: the controller becomes the record
\* the step's method returned.
Step(this, call) ==
    /\ steps < MaxSteps
    /\ \E after \in {this} :
           /\ Len(after.pending) <= MaxPending
           /\ after.viewsConstructed <= MaxViews
           /\ Becomes(after)
    /\ lastOp' = call
    /\ steps' = steps + 1
    /\ UNCHANGED regVars

\* The host binds a model and a track, or null.
SetModel(m, t) ==
    Step(setModel(This, m, t), Call("setModel", m, t, NullSelection, "", NoBuild))

\* The host selects something, or clears the selection.
SetSelection(sel) ==
    Step(setSelection(This, sel), Call("setSelection", "", "", sel, "", NoBuild))

\* The host sets the preferred tab.
SetPreferredTab(tabId) ==
    /\ tabId # preferredTabId
    /\ Step(setPreferredTab(This, tabId),
            Call("setPreferredTab", "", "", NullSelection, tabId, NoBuild))

\* The user clicks the header of a tab that is not the selected one.
UserSelectsTab(tabId) ==
    /\ hasTab(This, tabId)
    /\ tabId # selectedTabId
    /\ Step(selectTab(This, tabId, TRUE),
            Call("userSelectsTab", "", "", NullSelection, tabId, NoBuild))

\* The user clicks the close button of a closeable tab.
UserClosesTab(tabId) ==
    /\ \E i \in 1..Len(tabs) : tabs[i].id = tabId /\ tabs[i].closeable
    /\ Step(closeTab(This, tabId, TRUE),
            Call("userClosesTab", "", "", NullSelection, tabId, NoBuild))

\* A model's window is set, to a new value or to the one it has: the model
\* dispatches WindowChanged to each subscription.
RECURSIVE dispatchWindowChanged(_, _)
dispatchWindowChanged(this, n) ==
    IF n = 0 \/ this.thrown # "" THEN this
    ELSE dispatchWindowChanged(_onWindowChanged(this), n - 1)

WindowChanged(m, w) ==
    /\ Step(dispatchWindowChanged([This EXCEPT !.window[m] = w], listeners[m]),
            Call("windowChanged", m, "", NullSelection, "", NoBuild))

\* A detail build in flight resolves and its continuation runs.
BuildDone(i) ==
    LET build == pending[i]
        rest == [This EXCEPT !.pending = RemoveAt(@, i)]
        after == IF build.type = "TraceEvent"
                 THEN _appendDetailsTabsForTraceEventAndShowDetails(rest, build.object,
                                                                     Fragment(build))
                 ELSE _setContent(rest, Fragment(build))
    IN  Step(after, Call("buildDone", "", "", NullSelection, "", build))

\* A layer viewer calls the callback it was constructed with (line 289) to
\* have a snapshot shown in the paint profiler. The callback stays bound to
\* the controller when the LayerViewer tab is closed and when setModel drops
\* the layer viewer.
ShowSnapshotInPaintProfiler(snapshot) ==
    /\ snapshotCallback
    /\ Step(_showSnapshotInPaintProfiler(This, snapshot),
            Call("showSnapshotInPaintProfiler", "", "", NullSelection, "", NoBuild))

\* A target with a PaintProfilerModel appears or goes away.
SetPaintProfilerModel(present) ==
    /\ present # hasPaintProfilerModel
    /\ Step([This EXCEPT !.hasPaintProfilerModel = present],
            Call("targetChanged", "", "", NullSelection, "", NoBuild))

ViewInit ==
    /\ \E isShowing \in BOOLEAN :
           \E this \in {constructor(isShowing)} :
               /\ model = this.model
               /\ track = this.track
               /\ selection = this.selection
               /\ preferredTabId = this.preferredTabId
               /\ content = this.content
               /\ lazyLayersView = this.lazyLayersView
               /\ lazyPaintProfilerView = this.lazyPaintProfilerView
               /\ footer = this.footer
               /\ tabs = this.tabs
               /\ tabsHistory = this.tabsHistory
               /\ selectedTabId = this.selectedTabId
               /\ listening = this.listening
               /\ listeners = this.listeners
               /\ window = this.window
               /\ hasPaintProfilerModel = this.hasPaintProfilerModel
               /\ pending = this.pending
               /\ viewsConstructed = this.viewsConstructed
               /\ snapshotCallback = this.snapshotCallback
               /\ updated = this.updated
               /\ thrown = this.thrown
    /\ lastOp = Call("constructor", "", "", NullSelection, "", NoBuild)
    /\ steps = 0

ViewNext ==
    \/ \E m \in Models \cup {"null"}, t \in Tracks \cup {"null"} : SetModel(m, t)
    \/ \E sel \in Selections \cup {NullSelection} : SetSelection(sel)
    \/ \E tabId \in HostPreferredTabs : SetPreferredTab(tabId)
    \/ \E tabId \in UserTabs : UserSelectsTab(tabId)
    \/ \E tabId \in TabIds : UserClosesTab(tabId)
    \/ \E m \in Models, w \in Windows : WindowChanged(m, w)
    \/ \E i \in 1..Len(pending) : BuildDone(i)
    \/ \E snapshot \in Snapshots : ShowSnapshotInPaintProfiler(snapshot)
    \/ \E present \in BOOLEAN : SetPaintProfilerModel(present)

-----------------------------------------------------------------------------
(* The two specifications.                                                 *)

RegistryInit ==
    /\ registeredSettings = <<>>
    /\ settingNameSet = {}
    /\ enabledExperiments = {}
    /\ queryParams = {}
    /\ regCall = NoCall
    /\ regThrown = ""
    /\ returned = <<>>

RegistryNext ==
    \/ \E registration \in SettingRegistration : registerSettingExtension(registration)
    \/ getRegisteredSettings
    \/ \E settings \in SettingLists, forceReset \in BOOLEAN :
           registerSettingExtengionsForTest(settings, forceReset)
    \/ \E experiment \in ExperimentNames, enabled \in BOOLEAN :
           setExperimentEnabled(experiment, enabled)
    \/ \E condition \in ConditionNames, present \in BOOLEAN :
           setQueryParam(condition, present)

\* The registry empty and the controller constructed.
Init == RegistryInit /\ ViewInit

\* The registry at work, the controller left alone.
RegistrySpec == Init /\ [][RegistryNext]_vars

\* The controller at work, the registry left alone.
Next == ViewNext

Spec == Init /\ [][Next]_vars

-----------------------------------------------------------------------------
(* Properties of the setting registry, checked under RegistrySpec.         *)

\* The identifiers of the descriptors of a list.
NamesOf(settings) == {settings[k].settingName : k \in 1..Len(settings)}

\* Some identifier occurs twice in the list.
HasDuplicate(settings) ==
    \E i, j \in 1..Len(settings) : i < j /\ settings[i].settingName = settings[j].settingName

\* The identifier of the first descriptor of the list that repeats an earlier one.
FirstDuplicate(settings) ==
    LET j == CHOOSE j \in 1..Len(settings) :
                 /\ \E i \in 1..(j - 1) : settings[i].settingName = settings[j].settingName
                 /\ \A k \in 1..(j - 1) :
                        \A i \in 1..(k - 1) : settings[i].settingName # settings[k].settingName
    IN  settings[j].settingName

\* C1: registerSettingExtension of a descriptor whose identifier is in the
\* name index throws the duplicate-name error and leaves the list and the
\* name index as they were; of any other descriptor it appends the descriptor
\* at the end of the list and adds the identifier to the index.
C1_RegisterContract ==
    [][regCall'.op = "registerSettingExtension" =>
         LET registration == regCall'.settings[1]
         IN  IF registration.settingName \in settingNameSet
             THEN /\ regThrown' = DuplicateSettingName(registration.settingName)
                  /\ registeredSettings' = registeredSettings
                  /\ settingNameSet' = settingNameSet
             ELSE /\ regThrown' = ""
                  /\ registeredSettings' = registeredSettings \o <<registration>>
                  /\ settingNameSet' = settingNameSet \cup {registration.settingName}]_vars

\* A duplicate registration has been rejected by a registry holding two descriptors.
C1_Witness ==
    /\ regCall.op = "registerSettingExtension"
    /\ regThrown = DuplicateSettingName(regCall.settings[1].settingName)
    /\ Len(registeredSettings) = 2

\* C2: in every reachable state no two descriptors of the registered list
\* share an identifier.
C2_UniqueIdentifiers == ~HasDuplicate(registeredSettings)

\* C3: getRegisteredSettings returns exactly the registered descriptors whose
\* gating predicate holds at the moment, in registration order (all of them,
\* in order, when the predicate holds of all), and leaves the registry alone.
C3_GetReturnsEnabledInOrder ==
    [][regCall'.op = "getRegisteredSettings" =>
         /\ returned' = SelectSeq(registeredSettings, isDescriptorEnabled)
         /\ (\A k \in 1..Len(registeredSettings) : isDescriptorEnabled(registeredSettings[k]))
                => returned' = registeredSettings
         /\ registeredSettings' = registeredSettings
         /\ settingNameSet' = settingNameSet]_vars

\* getRegisteredSettings has returned some, not all, of a registry of
\* descriptors with distinct identifiers.
C3_Witness ==
    /\ regCall.op = "getRegisteredSettings"
    /\ ~HasDuplicate(registeredSettings)
    /\ Len(registeredSettings) >= 2
    /\ Len(returned) >= 1
    /\ Len(returned) < Len(registeredSettings)

\* C4: registerSettingExtengionsForTest(list, force) changes nothing when the
\* registry is non-empty and force is false; otherwise the registry is
\* exactly the given list afterwards and the name index exactly the
\* identifiers of that list.
C4_ForTestContract ==
    [][regCall'.op = "registerSettingExtengionsForTest" =>
         IF Len(registeredSettings) # 0 /\ ~regCall'.forceReset
         THEN /\ registeredSettings' = registeredSettings
              /\ settingNameSet' = settingNameSet
         ELSE /\ registeredSettings' = regCall'.settings
              /\ settingNameSet' = NamesOf(regCall'.settings)]_vars

\* C5: when registerSettingExtengionsForTest may replace the registry and the
\* list holds an identifier twice, the call throws the error
\* registerSettingExtension throws for that identifier.
C5_ForTestDuplicateThrows ==
    [][(/\ regCall'.op = "registerSettingExtengionsForTest"
        /\ Len(registeredSettings) = 0 \/ regCall'.forceReset
        /\ HasDuplicate(regCall'.settings))
         => regThrown' = DuplicateSettingName(FirstDuplicate(regCall'.settings))]_vars

\* A forced reset of a non-empty registry with a list repeating an identifier
\* has thrown.
C5_Witness ==
    /\ regCall.op = "registerSettingExtengionsForTest"
    /\ regCall.forceReset
    /\ HasDuplicate(regCall.settings)
    /\ regThrown # ""

-----------------------------------------------------------------------------
(* Properties of the details tab controller, checked under Spec.           *)

\* How many open tabs have the id.
TabCount(id) == Cardinality({i \in 1..Len(tabs) : tabs[i].id = id})

\* The latest step was setSelection of a frame with a layer tree.
SelectedFrameWithLayerTree ==
    /\ lastOp.op = "setSelection"
    /\ lastOp.selection.type = "Frame"
    /\ layerTree(lastOp.selection.object) # "null"

\* C6: detail builds are never cancelled: a build in flight stays in flight
\* through every step but its own completion, and its completion replaces
\* the summary with its fragment whatever the selection is by then (C6_Witness
\* is the state the claim says is reachable).
C6_BuildsNeverCancelled ==
    [][/\ lastOp'.op # "buildDone" =>
            /\ Len(pending') >= Len(pending)
            /\ SubSeq(pending', 1, Len(pending)) = pending
       /\ lastOp'.op = "buildDone" =>
            /\ Len(pending') = Len(pending) - 1
            /\ content' = Fragment(lastOp'.build)]_vars

\* The summary shows the details of a trace event or network request A, just
\* built, while the selection is another one, or none.
C6_Witness ==
    /\ lastOp.op = "buildDone"
    /\ content = Fragment(lastOp.build)
    /\ selection.type \in {"null", "Frame", "Range", "TraceEvent", "NetworkRequest"}
    /\ selection.object # lastOp.build.object

\* C7: when setModel(model, track) returns, the PaintProfiler and LayerViewer
\* tabs are closed, the cached views are discarded, the selection is null
\* and the model and track are the ones passed in.
C7_SetModelResets ==
    lastOp.op = "setModel" =>
        /\ thrown = ""
        /\ TabCount(Tab.PaintProfiler) = 0
        /\ TabCount(Tab.LayerViewer) = 0
        /\ lazyLayersView = NoView
        /\ lazyPaintProfilerView = NoView
        /\ selection = NullSelection
        /\ model = lastOp.model
        /\ track = lastOp.track

\* setModel has returned after a layer viewer and a paint profiler were
\* constructed.
C7_Witness ==
    /\ lastOp.op = "setModel"
    /\ viewsConstructed = 2

\* C8: the view holds exactly one WindowChanged subscription on its current
\* model, if it has one, and none on any other model.
C8_OneSubscription ==
    \A m \in Models : listeners[m] = IF m = model THEN 1 ELSE 0

\* The view is bound to m1 after it was bound to m2: a detail build started
\* with m2's timeline model is still in flight.
C8_Witness ==
    /\ lastOp.op = "setModel"
    /\ model = "m1"
    /\ Len(pending) > 0
    /\ pending[1].model = timelineModel("m2")

\* The range statistics of the bound model's window.
WindowStats ==
    Content("range", "", model, track, window[model].left, window[model].right)

\* C9 as claimed: setSelection(null) on a controller with a bound model makes
\* the summary the range statistics of the model's window.
C9_NullSelectionShowsWindow_Original ==
    (/\ lastOp.op = "setSelection"
     /\ lastOp.selection = NullSelection
     /\ ~Falsy(model))
        => content = WindowStats

\* C9, amended: setSelection(null) on a controller with a bound model and a
\* bound track makes the summary the range statistics of the model's window.
C9_NullSelectionShowsWindow ==
    (/\ lastOp.op = "setSelection"
     /\ lastOp.selection = NullSelection
     /\ ~Falsy(model)
     /\ ~Falsy(track))
        => /\ content = WindowStats
           /\ thrown = ""

\* The selection was cleared after a frame with a layer tree had been
\* selected under the same binding: the summary is back to the window.
C9_Witness ==
    /\ lastOp.op = "setSelection"
    /\ lastOp.selection = NullSelection
    /\ ~Falsy(model)
    /\ ~Falsy(track)
    /\ lazyLayersView # NoView
    /\ content = WindowStats

\* C10: selecting a frame with a layer tree, a model being bound, leaves
\* exactly one LayerViewer tab, backed by the cached layer viewer; and the
\* cached layer viewer stays the same instance until the next setModel, so a
\* later selection reuses the one the first selection constructed.
C10_OneLayerViewer ==
    [][/\ (SelectedFrameWithLayerTree /\ ~Falsy(model))' =>
            /\ thrown' = ""
            /\ TabCount(Tab.LayerViewer)' = 1
            /\ lazyLayersView' # NoView
            /\ \A i \in 1..Len(tabs') :
                   tabs'[i].id = Tab.LayerViewer => tabs'[i].view = lazyLayersView'.serial
       /\ (lazyLayersView # NoView /\ lastOp'.op # "setModel") =>
            lazyLayersView'.serial = lazyLayersView.serial]_vars

\* A frame with a layer tree has been selected again: the layer viewer is the
\* first view constructed, the paint profiler opened from it the second.
C10_Witness ==
    /\ SelectedFrameWithLayerTree
    /\ TabCount(Tab.LayerViewer) = 1
    /\ lazyLayersView.serial = 1
    /\ lazyPaintProfilerView.serial = 2

\* The latest step was the completion of the detail build of a trace event.
TraceEventBuildDone == lastOp.op = "buildDone" /\ lastOp.build.type = "TraceEvent"

\* C11: when the detail build of a trace event completes, the PaintProfiler
\* tab is open afterwards only if the event is a Paint or RasterTask, a
\* PaintProfilerModel exists and the paint profiler reports profile data for
\* the event; without a PaintProfilerModel no tab is added, no paint profiler
\* is constructed and nothing is thrown; an event of another kind leaves the
\* PaintProfiler tab closed.
C11_PaintProfilerOnlyWithModel ==
    [][TraceEventBuildDone' =>
         LET event == lastOp'.build.object
             paints == EventName(event) \in {"Paint", "RasterTask"}
         IN  /\ TabCount(Tab.PaintProfiler)' > 0 =>
                    /\ paints
                    /\ hasPaintProfilerModel
                    /\ hasProfileData(event)
             /\ ~hasPaintProfilerModel =>
                    /\ TabCount(Tab.PaintProfiler)' = 0
                    /\ viewsConstructed' = viewsConstructed
                    /\ lazyPaintProfilerView' = lazyPaintProfilerView
                    /\ thrown' = ""
             /\ ~paints =>
                    /\ TabCount(Tab.PaintProfiler)' = 0
                    /\ viewsConstructed' = viewsConstructed
                    /\ thrown' = ""]_vars

\* The detail build of a Paint event has completed and opened the
\* PaintProfiler tab on a freshly constructed paint profiler showing the event.
C11_Witness ==
    /\ TraceEventBuildDone
    /\ EventName(lastOp.build.object) = "Paint"
    /\ hasPaintProfilerModel
    /\ TabCount(Tab.PaintProfiler) = 1
    /\ lazyPaintProfilerView.showing = lastOp.build.object
    /\ thrown = ""

\* C12: between two setModel calls each lazy view is constructed at most
\* once: a populated cache keeps its instance through every step but
\* setModel, a view is constructed only to fill an empty cache, and it is
\* constructed for the model bound at that moment; setModel empties both
\* caches.
C12_LazyViewsOncePerBinding ==
    [][/\ lastOp'.op = "setModel" =>
            lazyLayersView' = NoView /\ lazyPaintProfilerView' = NoView
       /\ lastOp'.op # "setModel" =>
            /\ lazyLayersView # NoView => lazyLayersView'.serial = lazyLayersView.serial
            /\ lazyPaintProfilerView # NoView =>
                   lazyPaintProfilerView'.serial = lazyPaintProfilerView.serial
       /\ viewsConstructed' - viewsConstructed =
              (IF lazyLayersView = NoView /\ lazyLayersView' # NoView THEN 1 ELSE 0)
              + (IF lazyPaintProfilerView = NoView /\ lazyPaintProfilerView' # NoView
                 THEN 1 ELSE 0)
       /\ (lazyLayersView = NoView /\ lazyLayersView' # NoView) =>
              /\ lazyLayersView'.serial > viewsConstructed
              /\ lazyLayersView'.model = timelineModel(model')
       /\ (lazyPaintProfilerView = NoView /\ lazyPaintProfilerView' # NoView) =>
              /\ lazyPaintProfilerView'.serial > viewsConstructed
              /\ lazyPaintProfilerView'.model = model' \o ".frameModel"]_vars

\* After a rebinding to m2 a second layer viewer was constructed, for m2, the
\* first having been constructed under an earlier binding.
C12_Witness ==
    /\ lazyLayersView.serial = 2
    /\ lazyLayersView.model = timelineModel("m2")
    /\ lazyPaintProfilerView = NoView
    /\ model = "m2"

\* The updateContents call that refreshes the selected tab's view: the
\* selection, or the range of the bound model's window when there is none.
Refreshed ==
    [view |-> selectedTabId,
     selection |-> IF NoSelection(selection)
                   THEN fromRange(window[model].left, window[model].right)
                   ELSE selection]

\* C13 as claimed: every setSelection call, whichever tab is selected, ends
\* with updateContents invoked on the selected tab's view with the selection
\* or, without one, the range of the model's window.
C13_SetSelectionRefreshes_Original ==
    lastOp.op = "setSelection" =>
        /\ updated.view = selectedTabId
        /\ updated = Refreshed

\* C13, amended: every setSelection call on a controller with a bound model
\* returns normally and ends with updateContents invoked on the selected
\* tab's view, with the selection or, without one, the range of the model's
\* window, when the selected tab is BottomUp, CallTree or EventLog; when the
\* selected tab is another one, no view has updateContents invoked.
C13_SetSelectionRefreshes ==
    (lastOp.op = "setSelection" /\ ~Falsy(model)) =>
        /\ thrown = ""
        /\ updated = IF selectedTabId \in rangeDetailViews THEN Refreshed ELSE NoUpdate

\* The selection was cleared while the BottomUp tab was selected and the
\* model's window had moved: the tree view was given the moved window.
C13_Witness ==
    /\ lastOp.op = "setSelection"
    /\ lastOp.selection = NullSelection
    /\ selectedTabId = Tab.BottomUp
    /\ ~Falsy(model)
    /\ updated = [view |-> Tab.BottomUp, selection |-> fromRange(2, 5)]

\* C14: the preferred tab changes only in setPreferredTab and in steps that
\* dispatch a TabSelected event flagged as a user gesture (the user's click on
\* a tab header, and the selectTab(PaintProfiler, true) that ends
\* _showSnapshotInPaintProfiler when the tab is not selected by then). The
\* user's click makes the clicked tab selected and preferred, leaves the
\* summary alone and refreshes the clicked tab's tree view, if it has one,
\* from the selection or the bound model's window. A selection not flagged as
\* a user gesture runs no handler code: when the user closes a tab and the
\* pane selects another, the preferred tab, the selection and the summary stay
\* and no view is refreshed.
C14_PreferredTabOnlyByGesture ==
    [][/\ preferredTabId' # preferredTabId =>
              lastOp'.op \in {"setPreferredTab", "userSelectsTab", "showSnapshotInPaintProfiler"}
       /\ lastOp'.op = "setPreferredTab" => preferredTabId' = lastOp'.tabId
       /\ lastOp'.op = "userSelectsTab" =>
              /\ preferredTabId' = lastOp'.tabId
              /\ selectedTabId' = lastOp'.tabId
              /\ content' = content
              /\ selection' = selection
              /\ lastOp'.tabId \notin rangeDetailViews => updated' = NoUpdate /\ thrown' = ""
              /\ (lastOp'.tabId \in rangeDetailViews /\ ~Falsy(model)) =>
                     updated' = Refreshed' /\ thrown' = ""
       /\ (lastOp'.op = "showSnapshotInPaintProfiler" /\ thrown' = "") =>
              /\ selectedTabId' = Tab.PaintProfiler
              /\ preferredTabId' =
                     IF \/ selectedTabId = Tab.PaintProfiler
                        \/ TabCount(Tab.PaintProfiler) = 0 /\ selectedTabId # preferredTabId
                     THEN preferredTabId
                     ELSE Tab.PaintProfiler
       /\ lastOp'.op = "userClosesTab" =>
              /\ \A i \in 1..Len(tabs') : tabs'[i].id # lastOp'.tabId
              /\ selectedTabId' # lastOp'.tabId
              /\ preferredTabId' = preferredTabId
              /\ content' = content
              /\ selection' = selection
              /\ updated' = NoUpdate
              /\ thrown' = ""
       /\ \A tabId \in TabIds : _tabSelected(This, tabId, FALSE) = This]_vars

\* The user closed the PaintProfiler tab while it was selected and preferred:
\* the pane selected another tab, the preferred tab is still PaintProfiler.
C14_Witness ==
    /\ lastOp.op = "userClosesTab"
    /\ lastOp.tabId = Tab.PaintProfiler
    /\ preferredTabId = Tab.PaintProfiler
    /\ selectedTabId \in {Tab.Details, Tab.BottomUp, Tab.CallTree, Tab.EventLog}
    /\ updated = NoUpdate

\* C15: with no model or no track bound, setSelection(null), setSelection of
\* a Range and the user's selection of a tab each return without throwing,
\* whichever tab is selected.
C15_NoErrorWithoutModelOrTrack ==
    (/\ (Falsy(model) \/ Falsy(track))
     /\ ((lastOp.op = "setSelection" /\ lastOp.selection.type \in {"null", "Range"})
            \/ lastOp.op = "userSelectsTab"))
        => thrown = ""

\* C16: the footer reflects the latest setModel only: for a bound model it
\* is the one total-blocking-time message of that model, marked "(estimated)"
\* exactly when the model flags the metric as estimated, followed by the
\* "Learn more" link; with no model bound it is empty. The footer changes in
\* setModel only.
C16_FooterOfLastModel ==
    [][/\ lastOp'.op = "setModel" =>
            footer' = CASE lastOp'.model = "m1" ->
                             <<"Total blocking time: 120.00ms", "Learn more">>
                        [] lastOp'.model = "m2" ->
                             <<"Total blocking time: 2.67ms (estimated)", "Learn more">>
                        [] OTHER -> <<>>
       /\ lastOp'.op # "setModel" => footer' = footer]_vars

\* The model was rebound from m1, whose message the footer held, to m2, a
\* detail build started under m1 being still in flight.
C16_Witness ==
    /\ lastOp.op = "setModel"
    /\ lastOp.model = "m2"
    /\ Len(pending) > 0
    /\ pending[1].model = timelineModel("m1")
    /\ footer = <<"Total blocking time: 2.67ms (estimated)", "Learn more">>

\* The tabs the constructor opens, and the tabs opened on demand.
PermanentTabs == {Tab.Details, Tab.BottomUp, Tab.CallTree, Tab.EventLog}
OnDemandTabs == {Tab.PaintProfiler, Tab.LayerViewer}

\* C17: in every reachable state the Details, BottomUp, CallTree and EventLog
\* tabs are open, once each, and the PaintProfiler and LayerViewer tabs are
\* open at most once each; no step opens or closes any other tab: the four
\* permanent tabs are the ones the constructor appended, in their places.
C17_PermanentTabsStay ==
    /\ \A id \in PermanentTabs : TabCount(id) = 1
    /\ \A id \in OnDemandTabs : TabCount(id) <= 1
    /\ \A i \in 1..Len(tabs) : tabs[i].id \in TabIds
    /\ Len(tabs) >= 4
    /\ \A i \in 1..4 :
           /\ tabs[i].id = <<Tab.Details, Tab.BottomUp, Tab.CallTree, Tab.EventLog>>[i]
           /\ tabs[i].view = 0
           /\ ~tabs[i].closeable

\* Both on-demand tabs are open next to the four permanent ones.
C17_Witness ==
    /\ Len(tabs) = 6
    /\ TabCount(Tab.PaintProfiler) = 1
    /\ TabCount(Tab.LayerViewer) = 1

\* C18: a trace event's detail build started under an earlier binding (its
\* timeline model is not the bound model's) completes without opening the
\* PaintProfiler tab, without constructing a paint profiler and without
\* dereferencing the model bound by then.
C18_StaleBuildsInert ==
    [][(TraceEventBuildDone' /\ lastOp'.build.model # timelineModel(model)) =>
          /\ TabCount(Tab.PaintProfiler)' = 0
          /\ viewsConstructed' = viewsConstructed
          /\ (lazyPaintProfilerView = NoView => lazyPaintProfilerView' = NoView)
          /\ thrown' = ""]_vars

\* The latest step was a window-changed notification of the bound model.
BoundWindowChanged == lastOp.op = "windowChanged" /\ lastOp.model = model

\* What a window-changed notification leaves alone while a selection is active.
controllerState ==
    <<model, track, selection, preferredTabId, content, lazyLayersView,
      lazyPaintProfilerView, footer, tabs, tabsHistory, selectedTabId, pending>>

\* C19 as claimed: a window-changed notification of the bound model makes
\* the summary the statistics of the model's window and refreshes the selected
\* tree view from that window if and only if the selection is null; with a
\* selection active it changes no controller state.
C19_WindowChangedOnlyWithoutSelection_Original ==
    [][BoundWindowChanged' =>
         IF selection = NullSelection
         THEN /\ content' = WindowStats'
              /\ updated' = IF selectedTabId' \in rangeDetailViews THEN Refreshed' ELSE NoUpdate
         ELSE /\ controllerState' = controllerState
              /\ updated' = NoUpdate]_vars

\* C19, amended: a window-changed notification of the bound model, the
\* selection being null, makes the summary the statistics of the model's
\* window if a track is bound (without a track the summary stays as it is)
\* and refreshes the selected tree view from that window; with a selection
\* active it changes no controller state and refreshes nothing.
C19_WindowChangedOnlyWithoutSelection ==
    [][BoundWindowChanged' =>
         /\ thrown' = ""
         /\ IF selection = NullSelection
            THEN /\ content' = IF Falsy(track) THEN content ELSE WindowStats'
                 /\ updated' = IF selectedTabId' \in rangeDetailViews THEN Refreshed'
                                ELSE NoUpdate
                 /\ selection' = NullSelection
            ELSE /\ controllerState' = controllerState
                 /\ updated' = NoUpdate]_vars

\* The window of the bound model moved while nothing was selected and the
\* BottomUp tab was selected: summary and tree view show the moved window.
C19_Witness ==
    /\ BoundWindowChanged
    /\ selection = NullSelection
    /\ ~Falsy(track)
    /\ selectedTabId = Tab.BottomUp
    /\ content = WindowStats
    /\ content.startTime = 2
    /\ updated = [view |-> Tab.BottomUp, selection |-> fromRange(2, 5)]

\* The latest step opened an on-demand tab through setSelection: the
\* selection of a frame with a layer tree, or the completion of a trace
\* event's detail build that left the PaintProfiler tab open.
OpenedOnDemandTab ==
    \/ SelectedFrameWithLayerTree /\ TabCount(Tab.LayerViewer) = 1
    \/ TraceEventBuildDone /\ TabCount(Tab.PaintProfiler) = 1

\* The tab that step opened.
OpenedTab == IF TraceEventBuildDone THEN Tab.PaintProfiler ELSE Tab.LayerViewer

\* The most recently selected permanent tab: the tab that is selected once
\* _setContent has closed the on-demand tabs.
SelectedAtAppend ==
    LET first == CHOOSE i \in 1..Len(tabsHistory) :
                     /\ tabsHistory[i] \in PermanentTabs
                     /\ \A j \in 1..(i - 1) : tabsHistory[j] \notin PermanentTabs
    IN  tabsHistory[first]

\* After construction the selected tab and the preferred tab are Details.
DetailsAfterConstruction ==
    lastOp.op = "constructor" =>
        selectedTabId = Tab.Details /\ preferredTabId = Tab.Details

\* C20 as claimed: _appendTab selects the appended tab if and only if the
\* selected tab differs from the preferred tab at that moment; a setSelection
\* that opens an on-demand tab while the selected tab is the preferred tab
\* leaves the selected tab as it is; after construction selected and
\* preferred tab are Details.
C20_AppendSelectsUnlessPreferred_Original ==
    /\ []DetailsAfterConstruction
    /\ [][/\ \A id \in OnDemandTabs :
                ~hasTab(This, id) =>
                    ((_appendTab(This, id, 0, FALSE, TRUE).selectedTabId = id)
                        <=> (selectedTabId # preferredTabId))
          /\ (OpenedOnDemandTab' /\ selectedTabId = preferredTabId) =>
                selectedTabId' = selectedTabId]_vars

\* C20, amended: _appendTab selects the appended tab if and only if the
\* selected tab differs from the preferred tab at that moment; a setSelection
\* that opens an on-demand tab does so after its content replacement has
\* closed the on-demand tabs and the pane has fallen back to the most recently
\* selected permanent tab: if that tab is the preferred tab it stays selected,
\* otherwise the opened tab is selected; after construction selected and
\* preferred tab are Details.
C20_AppendSelectsUnlessPreferred ==
    /\ []DetailsAfterConstruction
    /\ [][/\ \A id \in OnDemandTabs :
                ~hasTab(This, id) =>
                    ((_appendTab(This, id, 0, FALSE, TRUE).selectedTabId = id)
                        <=> (selectedTabId # preferredTabId))
          /\ OpenedOnDemandTab' =>
                selectedTabId' = IF SelectedAtAppend = preferredTabId
                                 THEN SelectedAtAppend
                                 ELSE OpenedTab']_vars

\* A frame with a layer tree was selected while the PaintProfiler tab was
\* the selected and the preferred tab: the content replacement closed it and
\* the LayerViewer tab, appended next, was selected.
C20_Witness ==
    /\ SelectedFrameWithLayerTree
    /\ preferredTabId = Tab.PaintProfiler
    /\ selectedTabId = Tab.LayerViewer
    /\ TabCount(Tab.PaintProfiler) = 0

\* C21: in every reachable state of the registry the name index is exactly
\* the set of identifiers of the descriptors in the registered list, so that
\* registerSettingExtension rejects a descriptor exactly when a descriptor
\* with its identifier is in the list.
C21_IndexMatchesList == settingNameSet = NamesOf(registeredSettings)

====
